---- MODULE Spec2Model ----
(***************************************************************************)
(* LSS training assistant: the period resolver, the record model and the   *)
(* query orchestrator of SheetsAgent (src/src/sheets_agent.py,             *)
(* src/src/data_models.py).                                                *)
(*                                                                         *)
(* Dates are calendar days written as the integer yyyymmdd, so that the    *)
(* integer order is the calendar order.  A query is the list of its        *)
(* whitespace-separated words; `kw in query' of the source is the          *)
(* occurrence of the words of kw as consecutive words of the query.        *)
(***************************************************************************)
EXTENDS Integers, Sequences, FiniteSets, TLC

VARIABLES
    now,                    \* pd.Timestamp.now(), as a calendar day
    training_data,          \* SheetsAgent.training_data: None or <<trainingen>>
    conversation_history,   \* SheetsAgent.conversation_history
    load,                   \* the frame of a running load_sheet_data
    pq,                     \* a call of _parse_query_period: input and result
    ing,                    \* a call of TrainingData.from_sheet_data
    out,                    \* the last call of query_data, get_training_summary
                            \* or export_to_csv: input and result
    rl,                     \* the rate limiter that decorates query_data, the
                            \* clock it reads and the call that waits on it
    agent                   \* the module-level name agent of src/src/api.py

vars ==
    <<now, training_data, conversation_history, load, pq, ing, out, rl, agent>>

\* what the name agent of api.py is bound to once the module is imported:
\* the SheetsAgent (l.49), or None when making or loading it raised (l.55)
TheAgent == "SheetsAgent"
NoAgent == "None"

----------------------------------------------------------------------------
(* Bounds *)

MaxQueryLen == 3

\* the longest conversation that is followed
MaxPairs == 6

----------------------------------------------------------------------------
(* Calendar arithmetic of pd.Timestamp, pd.offsets.MonthEnd, pd.DateOffset *)

MkDate(y, m, d) == y * 10000 + m * 100 + d
YearOf(date) == date \div 10000
MonthOf(date) == (date \div 100) % 100
DayOf(date) == date % 100

IsLeap(y) == (y % 4 = 0 /\ y % 100 # 0) \/ y % 400 = 0

DaysInMonth(y, m) ==
    IF m = 2 THEN (IF IsLeap(y) THEN 29 ELSE 28)
    ELSE IF m \in {4, 6, 9, 11} THEN 30
    ELSE 31

\* MonthEnd with an exclusive end: the first day of the month after date
MonthEnd_Exclusive(date) ==
    IF MonthOf(date) = 12 THEN MkDate(YearOf(date) + 1, 1, 1)
    ELSE MkDate(YearOf(date), MonthOf(date) + 1, 1)

\* date + pd.offsets.MonthEnd(1): the next month end strictly after date
MonthEnd(date) ==
    LET y == YearOf(date)
        m == MonthOf(date)
        ny == IF m = 12 THEN y + 1 ELSE y
        nm == IF m = 12 THEN 1 ELSE m + 1
    IN  IF DayOf(date) < DaysInMonth(y, m)
        THEN MkDate(y, m, DaysInMonth(y, m))
        ELSE MkDate(ny, nm, DaysInMonth(ny, nm))

\* MinusOneMonth that forgets to borrow from the year in January
MinusOneMonth_SameYear(date) ==
    MkDate(YearOf(date), IF MonthOf(date) = 1 THEN 12 ELSE MonthOf(date) - 1,
           1)

\* date - pd.DateOffset(months=1): same day of the month before, the day
\* clipped to the length of that month
MinusOneMonth(date) ==
    LET y == YearOf(date)
        m == MonthOf(date)
        py == IF m = 1 THEN y - 1 ELSE y
        pm == IF m = 1 THEN 12 ELSE m - 1
        dim == DaysInMonth(py, pm)
    IN  MkDate(py, pm, IF DayOf(date) > dim THEN dim ELSE DayOf(date))

----------------------------------------------------------------------------
(* Queries *)

\* the words a query is made of
Vocabulary ==
    {"omzet", "januari", "februari", "deze", "vorige", "maand",
     "dit", "vorig", "jaar", "Q1", "q4", "2023", "2099"}

\* str.lower() on a word
Lower(w) ==
    IF w = "Q1" THEN "q1"
    ELSE IF w = "ING" THEN "ing"
    ELSE IF w = "Green" THEN "green"
    ELSE IF w = "Belt" THEN "belt"
    ELSE IF w = "Training" THEN "training"
    ELSE IF w = "Black" THEN "black"
    ELSE IF w = "ASML" THEN "asml"
    ELSE w

LowerQuery(q) == [i \in 1..Len(q) |-> Lower(q[i])]

\* kw in query, kw a list of words
Contains(query, kw) ==
    \E i \in 1..Len(query) :
        /\ i + Len(kw) - 1 <= Len(query)
        /\ \A j \in 1..Len(kw) : query[i + j - 1] = kw[j]

\* the number matched by r'20\d{2}' in a word, 0 when the word has none
YearInWord(w) ==
    IF w = "2023" THEN 2023 ELSE IF w = "2099" THEN 2099 ELSE 0

\* re.search(r'20\d{2}', query): the leftmost match, 0 for no match
YearMatch(query) ==
    IF \E i \in 1..Len(query) : YearInWord(query[i]) # 0
    THEN LET i == CHOOSE i \in 1..Len(query) :
                    /\ YearInWord(query[i]) # 0
                    /\ \A j \in 1..(i - 1) : YearInWord(query[j]) = 0
         IN  YearInWord(query[i])
    ELSE 0

\* the months dict, in insertion order
months ==
    <<"januari", "februari", "maart", "april", "mei", "juni", "juli",
      "augustus", "september", "oktober", "november", "december">>

\* the quarters dict, in insertion order: name, first month, last month
quarters ==
    << <<"q1", 1, 3>>, <<"eerste kwartaal", 1, 3>>,
       <<"q2", 4, 6>>, <<"tweede kwartaal", 4, 6>>,
       <<"q3", 7, 9>>, <<"derde kwartaal", 7, 9>>,
       <<"q4", 10, 12>>, <<"vierde kwartaal", 10, 12>> >>

\* the words of a quarter key
QuarterWords(k) ==
    IF k = 2 THEN <<"eerste", "kwartaal">>
    ELSE IF k = 4 THEN <<"tweede", "kwartaal">>
    ELSE IF k = 6 THEN <<"derde", "kwartaal">>
    ELSE IF k = 8 THEN <<"vierde", "kwartaal">>
    ELSE <<quarters[k][1]>>

\* the first index of 1..n that satisfies the test, 0 when none does
FirstMonthIn(query) ==
    IF \E m \in 1..12 : Contains(query, <<months[m]>>)
    THEN CHOOSE m \in 1..12 :
            /\ Contains(query, <<months[m]>>)
            /\ \A k \in 1..(m - 1) : ~Contains(query, <<months[k]>>)
    ELSE 0

FirstQuarterIn(query) ==
    IF \E k \in 1..8 : Contains(query, QuarterWords(k))
    THEN CHOOSE k \in 1..8 :
            /\ Contains(query, QuarterWords(k))
            /\ \A j \in 1..(k - 1) : ~Contains(query, QuarterWords(j))
    ELSE 0

----------------------------------------------------------------------------
(* Results and exceptions *)

\* a (start_date, end_date) tuple
Range(s, e) == [kind |-> "range", start |-> s, end |-> e]

\* the dict {'type': 'year', 'year': year}
YearDict(y) == [kind |-> "year_dict", year |-> y]

\* ValueError(f"Kan geen data tonen voor {name} {year} omdat ... in de
\* toekomst ligt."); wraps lists the prefixes that enclosing handlers put
\* in front of the message, the outermost first
FutureError(name, y) ==
    [kind |-> "error", wraps |-> <<>>, text |-> "toekomst",
     name |-> name, year |-> y]

\* any other exception, by its message
Error(text) ==
    [kind |-> "error", wraps |-> <<>>, text |-> text, name |-> "", year |-> 0]

\* raise ValueError(f"{prefix}: {str(e)}")
Wrap(prefix, e) == [e EXCEPT !.wraps = <<prefix>> \o @]

----------------------------------------------------------------------------
(* SheetsAgent._parse_query_period *)

\* min_date = pd.Timestamp(year=2000, month=1, day=1)
min_date == 20000101

\* InFuture with the test left out: no period is ever in the future
InFuture_Never(start_date, current_date) == FALSE

\* InFuture that also rejects a period starting today
InFuture_Inclusive(start_date, current_date) == start_date >= current_date

\* start_date > current_date, the test for a period in the future
InFuture(start_date, current_date) == start_date > current_date

\* year > current_date.year, the test for a year in the future
YearInFuture(year, current_date) == year > YearOf(current_date)

\* Branch with the quarter names tested before the month names
Branch_QuarterFirst(query, current_date) ==
    IF FirstQuarterIn(query) # 0 THEN "quarter"
    ELSE IF FirstMonthIn(query) # 0 THEN "month"
    ELSE IF Contains(query, <<"deze", "maand">>) THEN "deze maand"
    ELSE IF Contains(query, <<"vorige", "maand">>) THEN "vorige maand"
    ELSE IF YearMatch(query) # 0 /\ YearInFuture(YearMatch(query), current_date)
         THEN "future year"
    ELSE IF YearMatch(query) # 0 THEN "year"
    ELSE "all time"

\* Branch with the year validated before the relative months are tested
Branch_YearCheckFirst(query, current_date) ==
    IF FirstMonthIn(query) # 0 THEN "month"
    ELSE IF YearMatch(query) # 0 /\ YearInFuture(YearMatch(query), current_date)
         THEN "future year"
    ELSE IF Contains(query, <<"deze", "maand">>) THEN "deze maand"
    ELSE IF Contains(query, <<"vorige", "maand">>) THEN "vorige maand"
    ELSE IF FirstQuarterIn(query) # 0 THEN "quarter"
    ELSE IF YearMatch(query) # 0 THEN "year"
    ELSE "all time"

\* The branch of the if-chain of _parse_query_period that a lower-cased
\* query takes: the chain tests, in this order, the month names, 'deze
\* maand', 'vorige maand', the quarter names, a year in the future, a year,
\* and falls through to all time.
Branch(query, current_date) ==
    IF FirstMonthIn(query) # 0 THEN "month"
    ELSE IF Contains(query, <<"deze", "maand">>) THEN "deze maand"
    ELSE IF Contains(query, <<"vorige", "maand">>) THEN "vorige maand"
    ELSE IF FirstQuarterIn(query) # 0 THEN "quarter"
    ELSE IF YearMatch(query) # 0 /\ YearInFuture(YearMatch(query), current_date)
         THEN "future year"
    ELSE IF YearMatch(query) # 0 THEN "year"
    ELSE "all time"

_parse_query_period(q, current_date) ==
    LET query == LowerQuery(q)
        year_match == YearMatch(query)
        year == IF year_match # 0 THEN year_match ELSE YearOf(current_date)
        m == FirstMonthIn(query)
        k == FirstQuarterIn(query)
        branch == Branch(query, current_date)
    IN  IF branch = "month"
        THEN LET start_date == MkDate(year, m, 1)
                 end_date == MonthEnd(start_date)
             IN  IF InFuture(start_date, current_date)
                 THEN Wrap("Kon de periode niet bepalen",
                        Wrap("Kon geen datums maken voor",
                             FutureError(months[m], year)))
                 ELSE Range(start_date, end_date)
        ELSE IF branch = "deze maand"
        THEN LET start_date == MkDate(YearOf(current_date),
                                      MonthOf(current_date), 1)
             IN  Range(start_date, MonthEnd(start_date))
        ELSE IF branch = "vorige maand"
        THEN LET last_month == MinusOneMonth(current_date)
                 start_date == MkDate(YearOf(last_month),
                                      MonthOf(last_month), 1)
             IN  Range(start_date, MonthEnd(start_date))
        ELSE IF branch = "quarter"
        THEN LET start_date == MkDate(year, quarters[k][2], 1)
                 end_date == MonthEnd(MkDate(year, quarters[k][3], 1))
             IN  IF InFuture(start_date, current_date)
                 THEN Wrap("Kon de periode niet bepalen",
                        Wrap("Kon geen datums maken voor",
                             FutureError(quarters[k][1], year)))
                 ELSE Range(start_date, end_date)
        ELSE IF branch = "future year"
        THEN Wrap("Kon de periode niet bepalen",
                  FutureError("het jaar", year_match))
        ELSE IF branch = "year"
        THEN YearDict(year_match)
        ELSE Range(min_date, current_date)

----------------------------------------------------------------------------
(* The decorators of query_data: @sleep_and_retry over                     *)
(* @limits(calls=MAX_REQUESTS_PER_MINUTE, period=ONE_MINUTE).  The          *)
(* decorator object is made once, when the class body runs, and is shared   *)
(* by every SheetsAgent and every thread of the process.  Times are kept    *)
(* in seconds and as differences from the clock of the decorator: elapsed   *)
(* is clock() - last_reset, which acts alike for every value from the       *)
(* period on and is followed up to the period.                              *)

ONE_MINUTE == 60
MAX_REQUESTS_PER_MINUTE == 60

\* the threads that call query_data
Callers == {"a", "b"}

\* the decorator after its creation, no call waiting: last_reset = clock(),
\* num_calls = 0.  recent maps an age in seconds, below ONE_MINUTE, to the
\* number of executions of query_data that long ago.  A caller is idle or
\* in the time.sleep of sleep_and_retry with remaining seconds to go, and
\* delayed tells whether the call it has in hand has slept.
Decorated ==
    [elapsed |-> 0, num_calls |-> 0, recent |-> <<>>,
     callers |-> [c \in Callers |->
                    [pc |-> "idle", remaining |-> 0, delayed |-> FALSE,
                     query |-> <<>>]]]

\* The wrapper of limits, under its lock: when the period that began at
\* last_reset has passed, the count restarts and a new period begins now;
\* the call is counted; it is admitted unless the count exceeds calls, and
\* otherwise RateLimitException(period_remaining) is raised.
limits(elapsed, num_calls) ==
    LET period_remaining == ONE_MINUTE - elapsed
        reset == period_remaining <= 0
        counted == (IF reset THEN 0 ELSE num_calls) + 1
    IN  [elapsed |-> IF reset THEN 0 ELSE elapsed,
         num_calls |-> counted,
         admitted |-> counted <= MAX_REQUESTS_PER_MINUTE,
         period_remaining |-> period_remaining]

\* sleep_and_retry that lets the exception through to the caller
sleep_and_retry_Propagate(period_remaining) ==
    [caught |-> FALSE, sleep |-> 0]

\* The except clause of sleep_and_retry: RateLimitException is caught, the
\* thread sleeps for period_remaining and the loop calls again.
sleep_and_retry(period_remaining) ==
    [caught |-> TRUE, sleep |-> period_remaining]

----------------------------------------------------------------------------
(* Inputs *)

\* the days on which calls are made
NowDates ==
    {20230101, 20230131, 20230331, 20230615, 20240229, 20240331, 20241231}

RECURSIVE SeqsUpTo(_, _)
SeqsUpTo(S, n) ==
    IF n = 0 THEN {<<>>}
    ELSE LET shorter == SeqsUpTo(S, n - 1)
         IN  shorter \cup {Append(s, x) : s \in shorter, x \in S}

\* the examples of the specification, next to every short query
ExampleQueries ==
    {<<"omzet", "in", "januari", "2023">>, <<"omzet", "in", "januari", "2099">>}

Queries == SeqsUpTo(Vocabulary, MaxQueryLen) \cup ExampleQueries

Idle == [pc |-> "idle"]

----------------------------------------------------------------------------
(* Specification of the period resolver as a function of query and day *)

InitPeriod ==
    /\ now \in NowDates
    /\ pq \in {[pc |-> "call", query |-> q] : q \in Queries}
    /\ training_data = <<>>
    /\ conversation_history = <<>>
    /\ load = Idle
    /\ ing = Idle
    /\ out = Idle
    /\ rl = Decorated
    /\ agent = TheAgent

ParseQueryPeriod ==
    /\ pq.pc = "call"
    /\ pq' = [pc |-> "done", query |-> pq.query,
              result |-> _parse_query_period(pq.query, now)]
    /\ UNCHANGED <<now, training_data, conversation_history, load, ing, out,
                   rl, agent>>

NextPeriod == ParseQueryPeriod

SpecPeriod == InitPeriod /\ [][NextPeriod]_vars

----------------------------------------------------------------------------
(* Cell texts: a text is the list of its characters *)

DigitChars == <<"0", "1", "2", "3", "4", "5", "6", "7", "8", "9">>
IsDigit(c) == \E i \in 1..10 : DigitChars[i] = c
DigitVal(c) == (CHOOSE i \in 1..10 : DigitChars[i] = c) - 1
AllDigits(s) == \A i \in 1..Len(s) : IsDigit(s[i])

\* int(s) for a text of digits
RECURSIVE IntOf(_)
IntOf(s) ==
    IF s = <<>> THEN 0
    ELSE 10 * IntOf(SubSeq(s, 1, Len(s) - 1)) + DigitVal(s[Len(s)])

\* s.replace(c, '')
Remove(s, c) == SelectSeq(s, LAMBDA x : x # c)

\* s.replace(c, d)
Replace(s, c, d) == [i \in 1..Len(s) |-> IF s[i] = c THEN d ELSE s[i]]

\* s.strip()
RECURSIVE Strip(_)
Strip(s) ==
    IF s = <<>> THEN s
    ELSE IF Head(s) = " " THEN Strip(Tail(s))
    ELSE IF s[Len(s)] = " " THEN Strip(SubSeq(s, 1, Len(s) - 1))
    ELSE s

\* s.split(c)
RECURSIVE Split(_, _)
Split(s, c) ==
    IF \A i \in 1..Len(s) : s[i] # c THEN <<s>>
    ELSE LET i == CHOOSE i \in 1..Len(s) :
                    s[i] = c /\ \A j \in 1..(i - 1) : s[j] # c
         IN  <<SubSeq(s, 1, i - 1)>> \o Split(SubSeq(s, i + 1, Len(s)), c)

\* pd.NaT, the date of an empty cell; it compares false with every date
NaT == 0

\* pd.to_datetime(text, format='%d-%m-%Y'): a day, NaT for the empty text,
\* or the failure to parse
to_datetime(text) ==
    LET parts == Split(text, "-")
    IN  IF text = <<>> THEN [ok |-> TRUE, value |-> NaT]
        ELSE IF /\ Len(parts) = 3
                /\ Len(parts[1]) \in 1..2 /\ AllDigits(parts[1])
                /\ Len(parts[2]) \in 1..2 /\ AllDigits(parts[2])
                /\ Len(parts[3]) = 4 /\ AllDigits(parts[3])
                /\ IntOf(parts[2]) \in 1..12
                /\ IntOf(parts[1]) \in
                      1..DaysInMonth(IntOf(parts[3]), IntOf(parts[2]))
        THEN [ok |-> TRUE,
              value |-> MkDate(IntOf(parts[3]), IntOf(parts[2]),
                               IntOf(parts[1]))]
        ELSE [ok |-> FALSE, value |-> NaT]

\* float(text) for decimal notation, in cents: surrounding blanks and a
\* sign are accepted, then digits with at most one point and at least one
\* digit; digits after the second decimal are not kept
float(text) ==
    LET t == Strip(text)
        negative == t # <<>> /\ Head(t) = "-"
        body == IF t # <<>> /\ Head(t) \in {"-", "+"} THEN Tail(t) ELSE t
        parts == Split(body, ".")
        whole == parts[1]
        frac == IF Len(parts) = 2 THEN parts[2] ELSE <<>>
        frac2 == SubSeq(frac \o <<"0", "0">>, 1, 2)
        cents == 100 * IntOf(whole) + IntOf(frac2)
    IN  IF /\ Len(parts) <= 2
           /\ AllDigits(whole) /\ AllDigits(frac)
           /\ Len(whole) + Len(frac) >= 1
        THEN [ok |-> TRUE, value |-> IF negative THEN 0 - cents ELSE cents]
        ELSE [ok |-> FALSE, value |-> 0]

----------------------------------------------------------------------------
(* Normalizers, src/src/tools.py *)

UpperLetters ==
    <<"A", "B", "C", "D", "E", "F", "G", "H", "I", "J", "K", "L", "M",
      "N", "O", "P", "Q", "R", "S", "T", "U", "V", "W", "X", "Y", "Z">>
LowerLetters ==
    <<"a", "b", "c", "d", "e", "f", "g", "h", "i", "j", "k", "l", "m",
      "n", "o", "p", "q", "r", "s", "t", "u", "v", "w", "x", "y", "z">>

\* c.lower() for one character
LowerChar(c) ==
    IF \E i \in 1..26 : UpperLetters[i] = c
    THEN LowerLetters[CHOOSE i \in 1..26 : UpperLetters[i] = c]
    ELSE c

\* s.lower() for a text
LowerText(s) == [i \in 1..Len(s) |-> LowerChar(s[i])]

\* the character of s at index k, "" past its ends
At(s, k) == IF k \in 1..Len(s) THEN s[k] ELSE ""

\* the length of the run of blanks of s that starts at index i
SpacesFrom(s, i) ==
    CHOOSE n \in 0..(Len(s) - i + 1) :
        /\ \A k \in i..(i + n - 1) : s[k] = " "
        /\ At(s, i + n) # " "

\* \d{1,2} followed by sep at index j: the number of characters matched,
\* 0 for no match
DayOrMonth(s, j, sep) ==
    IF IsDigit(At(s, j)) /\ At(s, j + 1) = sep THEN 2
    ELSE IF IsDigit(At(s, j)) /\ IsDigit(At(s, j + 1)) /\ At(s, j + 2) = sep
    THEN 3
    ELSE 0

\* \d{4} at index j
YearAt(s, j) == \A k \in j..(j + 3) : IsDigit(At(s, k))

\* the match of \d{1,2}sep\d{1,2}sep\d{4} at index j, after n > 0 blanks
\* and d characters of day: the length of the whole match, 0 for no match
DateAfterDay(s, j, sep, n, d) ==
    IF d = 0 \/ DayOrMonth(s, j + d, sep) = 0 THEN 0
    ELSE IF YearAt(s, j + d + DayOrMonth(s, j + d, sep))
    THEN n + d + DayOrMonth(s, j + d, sep) + 4
    ELSE 0

\* the match of \s+\d{1,2}sep\d{1,2}sep\d{4} at index i, given the run of n
\* blanks there
DateAfterSpaces(s, i, sep, n) ==
    IF n = 0 THEN 0
    ELSE DateAfterDay(s, i + n, sep, n, DayOrMonth(s, i + n, sep))

\* the length of the match of the date pattern at index i, 0 for no match
MatchDate(s, i, sep) == DateAfterSpaces(s, i, sep, SpacesFrom(s, i))

\* re.sub(pattern, '', s) from index i on: the matches are found from left
\* to right in s and do not overlap
RECURSIVE SubDatesFrom(_, _, _)
SubDatesFrom(s, i, sep) ==
    IF i > Len(s) THEN <<>>
    ELSE IF MatchDate(s, i, sep) > 0
    THEN SubDatesFrom(s, i + MatchDate(s, i, sep), sep)
    ELSE <<s[i]>> \o SubDatesFrom(s, i + 1, sep)

\* re.sub(r'\s+\d{1,2}sep\d{1,2}sep\d{4}', '', s)
SubDates(s, sep) == SubDatesFrom(s, 1, sep)

\* ' '.join(s.split()) from index i on: the blanks before the first word
\* and after the last are dropped, a run between two words becomes one
RECURSIVE JoinSplitFrom(_, _)
JoinSplitFrom(s, i) ==
    IF i > Len(s) THEN <<>>
    ELSE IF s[i] # " " THEN <<s[i]>> \o JoinSplitFrom(s, i + 1)
    ELSE IF /\ i > 1
            /\ s[i - 1] # " "
            /\ \E k \in (i + 1)..Len(s) : s[k] # " "
    THEN <<" ">> \o JoinSplitFrom(s, i + 1)
    ELSE JoinSplitFrom(s, i + 1)

\* ' '.join(s.split())
JoinSplit(s) == JoinSplitFrom(s, 1)

\* clean_training_name: the dates with slashes are removed, then the dates
\* with dashes, then the whitespace is normalised
clean_training_name(training_name) ==
    Strip(JoinSplit(SubDates(SubDates(training_name, "/"), "-")))

\* the legal suffixes, in the order of the list
suffixes ==
    <<<<" ", "b", "v">>, <<" ", "b", ".", "v", ".">>,
      <<" ", "n", "v">>, <<" ", "n", ".", "v", ".">>,
      <<" ", "i", "n", "c">>, <<" ", "l", "t", "d">>>>

\* s.endswith(suffix)
EndsWith(s, suffix) ==
    /\ Len(s) >= Len(suffix)
    /\ SubSeq(s, Len(s) - Len(suffix) + 1, Len(s)) = suffix

\* the loop over the suffixes from the k-th on: a suffix that the name
\* ends with, as the loop has left it, is cut off
RECURSIVE StripSuffixes(_, _)
StripSuffixes(company_name, k) ==
    IF k > Len(suffixes) THEN company_name
    ELSE IF EndsWith(LowerText(company_name), suffixes[k])
    THEN StripSuffixes(
            SubSeq(company_name, 1, Len(company_name) - Len(suffixes[k])),
            k + 1)
    ELSE StripSuffixes(company_name, k + 1)

\* clean_company_name
clean_company_name(company_name) ==
    Strip(StripSuffixes(JoinSplit(Strip(company_name)), 1))

----------------------------------------------------------------------------
(* Training and TrainingData, src/src/data_models.py *)

\* float(omzet_str.replace('€', '').replace('.', '').replace(',', '.'))
clean_omzet(omzet_str) ==
    float(Replace(Remove(Remove(omzet_str, "€"), "."), ",", "."))

\* Training.from_row: the Training of a sheet row, or the ValueError
from_row(row) ==
    LET datum == to_datetime(row.Datum_Inschrijving)
        omzet == clean_omzet(row.Omzet)
    IN  IF datum.ok /\ omzet.ok
        THEN [ok |-> TRUE,
              training |-> [datum_inschrijving |-> datum.value,
                            training_naam |-> row.Training,
                            omzet |-> omzet.value,
                            type |-> row.Type,
                            bedrijf |-> row.Bedrijf]]
        ELSE [ok |-> FALSE]

\* one turn of the loop of from_sheet_data, on the row of index idx - 1:
\* the training is appended, or the row is reported
ParseRow(df, idx, acc) ==
    LET r == from_row(df[idx])
    IN  IF r.ok
        THEN [acc EXCEPT !.trainingen = Append(@, r.training)]
        ELSE [acc EXCEPT !.errors = Append(@, idx - 1)]

\* the loop of from_sheet_data over the rows from index idx - 1 on
RECURSIVE ParseRows(_, _, _)
ParseRows(df, idx, acc) ==
    IF idx > Len(df) THEN acc
    ELSE ParseRows(df, idx + 1, ParseRow(df, idx, acc))

\* ParseEnd that keeps what parsed and only logs the rows reported
ParseEnd_Partial(acc) == [ok |-> TRUE, trainingen |-> acc.trainingen]

\* from_sheet_data ends: no set when a row was reported
ParseEnd(acc) ==
    IF acc.errors # <<>>
    THEN [ok |-> FALSE, errors |-> acc.errors]
    ELSE [ok |-> TRUE, trainingen |-> acc.trainingen]

\* TrainingData.from_sheet_data
from_sheet_data(df) ==
    ParseEnd(ParseRows(df, 1, [trainingen |-> <<>>, errors |-> <<>>]))

----------------------------------------------------------------------------
(* Sheets *)

MaxRows == 2

Text_15_03_2023 == <<"1", "5", "-", "0", "3", "-", "2", "0", "2", "3">>
Text_1_1_2024 == <<"1", "-", "1", "-", "2", "0", "2", "4">>
Text_31_02_2023 == <<"3", "1", "-", "0", "2", "-", "2", "0", "2", "3">>
Text_2023_03_15 == <<"2", "0", "2", "3", "-", "0", "3", "-", "1", "5">>
Text_Euro_1234_56 == <<"€", " ", "1", ".", "2", "3", "4", ",", "5", "6">>
Text_300 == <<"3", "0", "0">>
Text_Minus_50 == <<"-", "5", "0">>
Text_nvt == <<"n", ".", "v", ".", "t", ".">>

DateCells ==
    {Text_15_03_2023, Text_1_1_2024, Text_31_02_2023, Text_2023_03_15, <<>>}
OmzetCells == {Text_Euro_1234_56, Text_300, Text_Minus_50, Text_nvt, <<>>}

SampleRows ==
    [Datum_Inschrijving : DateCells,
     Training : {<<"Green", "Belt", "Training">>},
     Omzet : OmzetCells, Type : {<<"Green", "Belt">>}, Bedrijf : {<<"ING">>}]

----------------------------------------------------------------------------
(* Specification of from_sheet_data as a function of the sheet *)

InitIngest ==
    /\ ing \in {[pc |-> "call", df |-> df] : df \in SeqsUpTo(SampleRows, MaxRows)}
    /\ now \in {20240331}
    /\ pq = Idle
    /\ training_data = <<>>
    /\ conversation_history = <<>>
    /\ load = Idle
    /\ out = Idle
    /\ rl = Decorated
    /\ agent = TheAgent

FromSheetData ==
    /\ ing.pc = "call"
    /\ ing' = [pc |-> "done", df |-> ing.df, result |-> from_sheet_data(ing.df)]
    /\ UNCHANGED <<now, training_data, conversation_history, load, pq, out, rl, agent>>

NextIngest == FromSheetData

SpecIngest == InitIngest /\ [][NextIngest]_vars

----------------------------------------------------------------------------
(* Specification of the normalizers as functions of the text *)

MaxNameParts == 4
MaxSuffixes == 2

Text_Green_Belt_Training == <<"G", "r", "e", "e", "n", " ", "B", "e", "l", "t", " ", "T", "r", "a", "i", "n", "i", "n", "g">>
Text_ACME_Solutions == <<"A", "C", "M", "E", " ", "S", "o", "l", "u", "t", "i", "o", "n", "s">>

\* pieces of training names: a name, dates with slashes and dashes, and
\* pieces of dates
NameParts ==
    {Text_Green_Belt_Training, <<" ", "1", "2", "/", "1", "2", "/", "2", "0", "2", "4">>,
     <<" ", "1", "/", "1">>, <<" ", "2", "/", "2", "/", "2", "0", "2", "4">>,
     <<"/", "2", "0", "2", "4">>, <<" ", "3", "-", "3", "-", "2", "0", "2", "4">>, <<" ">>}

\* pieces of company names: legal suffixes as they are written
SuffixParts ==
    {<<" ", "b", "v">>, <<" ", "B", ".", "V", ".">>, <<" ", "n", "v">>,
     <<" ", "N", ".", "V", ".">>, <<" ", "i", "n", "c">>, <<" ", "L", "t", "d">>}

\* the texts made of at most n of the parts
RECURSIVE TextsOf(_, _)
TextsOf(parts, n) ==
    IF n = 0 THEN {<<>>}
    ELSE LET shorter == TextsOf(parts, n - 1)
         IN  shorter \cup {t \o q : t \in shorter, q \in parts}

TrainingNames == TextsOf(NameParts, MaxNameParts)
CompanyNames ==
    {Text_ACME_Solutions \o t : t \in TextsOf(SuffixParts, MaxSuffixes)}

InitNormalize ==
    /\ out \in {[pc |-> "call", op |-> "clean_training_name", text |-> t] :
                    t \in TrainingNames}
            \cup {[pc |-> "call", op |-> "clean_company_name", text |-> t] :
                    t \in CompanyNames}
    /\ now \in {20240331}
    /\ training_data = <<>>
    /\ conversation_history = <<>>
    /\ load = Idle
    /\ pq = Idle
    /\ ing = Idle
    /\ rl = Decorated
    /\ agent = TheAgent

\* the cleaner applied to the text, and applied again to what it returned
CleanTrainingName ==
    /\ out.pc = "call"
    /\ out.op = "clean_training_name"
    /\ out' = [out EXCEPT !.pc = "done"]
                @@ [once |-> clean_training_name(out.text),
                    twice |-> clean_training_name(
                                  clean_training_name(out.text))]
    /\ UNCHANGED <<now, training_data, conversation_history, load, pq, ing,
                   rl, agent>>

CleanCompanyName ==
    /\ out.pc = "call"
    /\ out.op = "clean_company_name"
    /\ out' = [out EXCEPT !.pc = "done"]
                @@ [once |-> clean_company_name(out.text)]
    /\ UNCHANGED <<now, training_data, conversation_history, load, pq, ing,
                   rl, agent>>

NextNormalize ==
    \/ CleanTrainingName
    \/ CleanCompanyName

SpecNormalize == InitNormalize /\ [][NextNormalize]_vars

----------------------------------------------------------------------------
(* Specification of from_sheet_data on sheets whose names are texts *)

RecordRows ==
    [Datum_Inschrijving : {Text_15_03_2023, Text_1_1_2024},
     Training : {Text_Green_Belt_Training,
                 Text_Green_Belt_Training \o <<" ", "1", "2", "/", "1", "2", "/", "2", "0", "2", "4">>,
                 Text_Green_Belt_Training \o <<" ", "3", "-", "3", "-", "2", "0", "2", "4">>},
     Omzet : {Text_300, Text_Euro_1234_56},
     Type : {<<"Green", "Belt">>},
     Bedrijf : {Text_ACME_Solutions, Text_ACME_Solutions \o <<" ", "B", ".", "V", ".">>,
                Text_ACME_Solutions \o <<" ", "n", "v">>}]

InitRecords ==
    /\ ing \in {[pc |-> "call", df |-> df] :
                    df \in SeqsUpTo(RecordRows, MaxRows)}
    /\ now \in {20240331}
    /\ pq = Idle
    /\ training_data = <<>>
    /\ conversation_history = <<>>
    /\ load = Idle
    /\ out = Idle
    /\ rl = Decorated
    /\ agent = TheAgent

NextRecords == FromSheetData

SpecRecords == InitRecords /\ [][NextRecords]_vars

----------------------------------------------------------------------------
(* TrainingData: filters and totals *)

\* Optional[TrainingData]: None, or the list of Training of the set
None == <<>>
Some(trainingen) == <<trainingen>>

\* TrainingData.filter_by_period: start_date <= datum <= end_date
filter_by_period(trainingen, start_date, end_date) ==
    SelectSeq(trainingen,
              LAMBDA t : /\ t.datum_inschrijving # NaT
                         /\ start_date <= t.datum_inschrijving
                         /\ t.datum_inschrijving <= end_date)

\* TrainingData.get_total_revenue
RECURSIVE get_total_revenue(_)
get_total_revenue(trainingen) ==
    IF trainingen = <<>> THEN 0
    ELSE Head(trainingen).omzet + get_total_revenue(Tail(trainingen))

\* the type_counts and type_revenue dicts of query_data, as one mapping
PerType(trainingen) ==
    LET types == {trainingen[i].type : i \in 1..Len(trainingen)}
        OfType(ty) == SelectSeq(trainingen, LAMBDA t : t.type = ty)
    IN  [ty \in types |->
            [aantal_inschrijvingen |-> Len(OfType(ty)),
             omzet |-> get_total_revenue(OfType(ty))]]

----------------------------------------------------------------------------
(* SheetsAgent.query_data *)

\* self.max_history = 5
max_history == 5

\* self.system_prompt
system_prompt == <<"Je", "bent", "een", "Nederlandse", "AI", "assistent">>

\* the outcomes of client.chat.completions.create: a response with an
\* answer, or an exception of the client with its message
Answers == {<<"antwoord">>}
DownstreamErrors == {"Connection error."}
Completions ==
    {[ok |-> TRUE, answer |-> a, error |-> ""] : a \in Answers}
        \cup {[ok |-> FALSE, answer |-> <<>>, error |-> e] :
                e \in DownstreamErrors}

\* LastTurns that sends the whole history
LastTurns_All(history, n) == history

\* history[-n:] for n > 0
LastTurns(history, n) ==
    SubSeq(history, IF Len(history) > n THEN Len(history) - n + 1 ELSE 1,
           Len(history))

\* the messages list of query_data: the system prompt, the slice of the
\* history, and the user message made of the context and the query
Messages(user_query, context, history) ==
    <<[role |-> "system", content |-> system_prompt]>>
        \o LastTurns(history, max_history)
        \o <<[role |-> "user",
              content |-> [context |-> context, vraag |-> user_query]]>>

\* query_data from the context on (l.392-446), for the resolved period and
\* the filtered trainings: the messages, the call of the completion
\* service, and what is returned or raised
query_data_answer(user_query, history, completion, period, filtered) ==
    LET context == [totale_omzet |-> get_total_revenue(filtered),
                    totaal_aantal_inschrijvingen |-> Len(filtered),
                    periode |-> <<period.start, period.end>>,
                    per_type |-> PerType(filtered)]
        messages == Messages(user_query, context, history)
    IN  IF ~completion.ok
        THEN [kind |-> "error", called |-> TRUE, attempts |-> 1,
              messages |-> messages,
              error |-> Wrap("Er is een fout opgetreden",
                             Error(completion.error))]
        ELSE [kind |-> "ok", called |-> TRUE, attempts |-> 1,
              messages |-> messages, filtered |-> filtered,
              context |-> context, answer |-> completion.answer]

\* query_data once _parse_query_period has returned or raised (l.369-390).
\* period[0] on the year dict raises KeyError(0), whose message is "0".
query_data_period(user_query, data, history, completion, period) ==
    IF data = None
    THEN [kind |-> "error", called |-> FALSE, attempts |-> 0,
          error |-> Wrap("Er is een fout opgetreden",
                         Error("Geen data geladen"))]
    ELSE IF period.kind = "error"
    THEN [kind |-> "error", called |-> FALSE, attempts |-> 0,
          error |-> Wrap("Er is een fout opgetreden",
                      Wrap("Kon de periode niet bepalen", period))]
    ELSE IF period.kind = "year_dict"
    THEN [kind |-> "error", called |-> FALSE, attempts |-> 0,
          error |-> Wrap("Er is een fout opgetreden",
                      Wrap("Kon de periode niet bepalen", Error("0")))]
    ELSE query_data_answer(user_query, history, completion, period,
            filter_by_period(data[1], period.start, period.end))

\* The result of query_data for a query, given the outcome of the call of
\* the completion service, should it be reached.  attempts counts the calls
\* of client.chat.completions.create, messages is what they are given.
query_data(user_query, data, history, current_date, completion) ==
    query_data_period(user_query, data, history, completion,
        _parse_query_period(LowerQuery(user_query), current_date))

\* history_after that stores the question before the completion is asked
history_after_UserFirst(user_query, history, result) ==
    IF result.kind = "ok"
    THEN history \o <<[role |-> "user", content |-> user_query],
                      [role |-> "assistant", content |-> result.answer]>>
    ELSE IF result.called
    THEN Append(history, [role |-> "user", content |-> user_query])
    ELSE history

\* self.conversation_history after query_data
history_after(user_query, history, result) ==
    IF result.kind = "ok"
    THEN history \o <<[role |-> "user", content |-> user_query],
                      [role |-> "assistant", content |-> result.answer]>>
    ELSE history

\* query_data returns or raises result
QueryDataReturn(user_query, result) ==
    /\ out' = [pc |-> "done", op |-> "query_data",
               query |-> user_query, result |-> result]
    /\ conversation_history' =
          history_after(user_query, conversation_history, result)
    /\ UNCHANGED <<now, training_data, load, pq, ing>>

QueryDataWith(user_query, completions) ==
    \E completion \in completions :
        QueryDataReturn(user_query,
            query_data(user_query, training_data, conversation_history,
                       now, completion))

\* a call of query_data, whatever the completion service does
QueryData(user_query) == QueryDataWith(user_query, Completions)

----------------------------------------------------------------------------
(* A call of the decorated query_data *)

\* the seconds that pass between two looks at the clock
Delays == {30}

\* what the callers of this specification ask
LimiterQueries == {<<"dit", "jaar">>}

\* the completion service answers the first question and fails from then
\* on, which keeps the history bounded
LimiterCompletions ==
    IF conversation_history = <<>> THEN Completions
    ELSE {c \in Completions : ~c.ok}

\* recent, with one more execution now
Executed(recent) ==
    IF 0 \in DOMAIN recent THEN [recent EXCEPT ![0] = @ + 1]
    ELSE recent @@ (0 :> 1)

\* recent, d seconds later
Aged(recent, d) ==
    [age \in {a + d : a \in {b \in DOMAIN recent : b + d < ONE_MINUTE}} |->
        recent[age - d]]

\* One turn of the loop of sleep_and_retry for the call of caller c with
\* query q, as the decorators see it: the wrapper of limits counts the
\* call, and then query_data runs and the call returns, or the except
\* clause puts the thread to sleep, or, were the exception not caught, the
\* call ends there.
Limited(c, q, delayed) ==
    LET l == limits(rl.elapsed, rl.num_calls)
        counted == [rl EXCEPT !.elapsed = l.elapsed,
                              !.num_calls = l.num_calls]
        handler == sleep_and_retry(l.period_remaining)
    IN  rl' = IF l.admitted
              THEN [counted EXCEPT
                      !.recent = Executed(@),
                      !.callers[c] = [pc |-> "idle", remaining |-> 0,
                                      delayed |-> delayed, query |-> q]]
              ELSE IF handler.caught
              THEN [counted EXCEPT
                      !.callers[c] = [pc |-> "sleeping",
                                      remaining |-> handler.sleep,
                                      delayed |-> TRUE, query |-> q]]
              ELSE [counted EXCEPT
                      !.callers[c] = [pc |-> "raised", remaining |-> 0,
                                      delayed |-> delayed, query |-> q]]

\* the same turn, with what it does to the agent and gives the caller
Attempt(c, q, delayed) ==
    /\ Limited(c, q, delayed)
    /\ IF limits(rl.elapsed, rl.num_calls).admitted
       THEN QueryDataWith(q, LimiterCompletions)
       ELSE UNCHANGED <<now, training_data, conversation_history, load, pq,
                        ing, out>>
    /\ UNCHANGED agent

\* caller c calls query_data(q) on an agent
LimitedCall(c) ==
    /\ rl.callers[c].pc = "idle"
    /\ \E q \in LimiterQueries : Attempt(c, q, FALSE)

\* time.sleep is over in caller c
Awake(c) == rl.callers[c].pc = "sleeping" /\ rl.callers[c].remaining = 0

\* time.sleep returns in caller c and the loop of sleep_and_retry calls
\* again
LimitedRetry(c) == Awake(c) /\ Attempt(c, rl.callers[c].query, TRUE)

\* the turn of the loop that an awake caller c takes, in the decorators
RetryTurn(c) == Awake(c) /\ Limited(c, rl.callers[c].query, TRUE)

\* that turn, when it lets the call through
RetryTurnAdmitted(c) == RetryTurn(c) /\ rl'.callers[c].pc = "idle"

\* time passes
Tick ==
    /\ \E d \in Delays :
          rl' = [rl EXCEPT
                   !.elapsed = IF @ + d > ONE_MINUTE THEN ONE_MINUTE ELSE @ + d,
                   !.recent = Aged(@, d),
                   !.callers = [c \in Callers |->
                       [@[c] EXCEPT !.remaining = IF @ > d THEN @ - d ELSE 0]]]
    /\ UNCHANGED <<now, training_data, conversation_history, load, pq, ing,
                   out, agent>>

----------------------------------------------------------------------------
(* The /vraag endpoint, src/src/api.py *)

\* raise HTTPException(status_code=500, detail=f"Error processing question:
\* {str(e)}"), the only way out of the handler for an exception
Http500(e) ==
    [status |-> 500, detail |-> Wrap("Error processing question", e)]

\* process_question: the response to a question, result being what
\* agent.query_data gives when the handler gets to call it.  Every
\* HTTPException raised in the try block is caught by its except clause.
process_question(agent_present, data, result) ==
    IF ~agent_present THEN Http500(Error("SheetsAgent not initialized"))
    ELSE IF data = None THEN Http500(Error("Training data not loaded"))
    ELSE IF result.kind = "error" THEN Http500(result.error)
    ELSE IF result.answer = <<>>
    THEN Http500(Error("Could not generate response"))
    ELSE [status |-> 200, antwoord |-> result.answer]

\* a POST /vraag on a process whose start-up built and loaded the agent
\* process_question answers, query_data having returned or raised result
ProcessQuestionReturn(vraag, result) ==
    /\ out' = [pc |-> "done", op |-> "process_question",
               query |-> vraag, result |-> result,
               response |-> process_question(TRUE, training_data, result)]
    /\ conversation_history' =
          history_after(vraag, conversation_history, result)
    /\ UNCHANGED <<now, training_data, load, pq, ing>>

ProcessQuestion(vraag) ==
    /\ training_data # None
    /\ \E completion \in Completions :
          ProcessQuestionReturn(vraag,
              query_data(vraag, training_data, conversation_history, now,
                         completion))

----------------------------------------------------------------------------
(* Formatting *)

\* the decimal digits of n, at least width of them
RECURSIVE DigitsOf(_, _)
DigitsOf(n, width) ==
    IF n < 10 /\ width <= 1 THEN <<DigitChars[n + 1]>>
    ELSE Append(DigitsOf(n \div 10, width - 1), DigitChars[(n % 10) + 1])

\* datum.strftime('%d-%m-%Y')
strftime(date) ==
    DigitsOf(DayOf(date), 2) \o <<"-">> \o DigitsOf(MonthOf(date), 2)
        \o <<"-">> \o DigitsOf(YearOf(date), 4)

\* the ',' of the format: a comma before every group of three digits
RECURSIVE Grouped(_)
Grouped(digits) ==
    IF Len(digits) <= 3 THEN digits
    ELSE Grouped(SubSeq(digits, 1, Len(digits) - 3)) \o <<",">>
            \o SubSeq(digits, Len(digits) - 2, Len(digits))

\* f'€ {omzet:,.2f}', omzet in cents
FormatOmzet(omzet) ==
    LET abs == IF omzet < 0 THEN 0 - omzet ELSE omzet
    IN  <<"€", " ">> \o (IF omzet < 0 THEN <<"-">> ELSE <<>>)
            \o Grouped(DigitsOf(abs \div 100, 1)) \o <<".">>
            \o DigitsOf(abs % 100, 2)

----------------------------------------------------------------------------
(* SheetsAgent.get_training_summary and SheetsAgent.export_to_csv *)

\* the default period=None
NoPeriod == [kind |-> "none"]

\* TrainingData.filter_by_company: company_query.lower() in bedrijf.lower()
filter_by_company(trainingen, company_query) ==
    SelectSeq(trainingen,
              LAMBDA t : Contains(LowerQuery(t.bedrijf),
                                  LowerQuery(company_query)))

\* filter_by_type that stops at the first training that matches
filter_by_type_First(trainingen, type_query) ==
    LET all == SelectSeq(trainingen,
                    LAMBDA t : Contains(LowerQuery(t.type),
                                        LowerQuery(type_query)))
    IN  IF all = <<>> THEN <<>> ELSE <<Head(all)>>

\* TrainingData.filter_by_type: type_query.lower() in type.lower()
filter_by_type(trainingen, type_query) ==
    SelectSeq(trainingen,
              LAMBDA t : Contains(LowerQuery(t.type), LowerQuery(type_query)))

\* TrainingData.get_revenue_by_type
get_revenue_by_type(trainingen) ==
    [ty \in {trainingen[i].type : i \in 1..Len(trainingen)} |->
        get_total_revenue(SelectSeq(trainingen, LAMBDA t : t.type = ty))]

\* the percentage (current - previous) / previous * 100 as the fraction
\* <<numerator, denominator>>, <<0, 1>> when previous is not positive
ChangePercentage(current, previous) ==
    IF previous > 0 THEN <<(current - previous) * 100, previous>>
    ELSE <<0, 1>>

\* SheetsAgent._calculate_trends; previous is None or <<trainingen>>
_calculate_trends(current, previous) ==
    LET current_total == get_total_revenue(current)
        previous_total ==
            IF previous # None THEN get_total_revenue(previous[1]) ELSE 0
        current_by_type == get_revenue_by_type(current)
        previous_by_type == get_revenue_by_type(previous[1])
        Prev(ty) == IF ty \in DOMAIN previous_by_type
                    THEN previous_by_type[ty] ELSE 0
    IN  [total_change_percentage |->
            ChangePercentage(current_total, previous_total),
         by_type |->
            IF previous # None
            THEN [ty \in DOMAIN current_by_type |->
                    [current_value |-> current_by_type[ty],
                     previous_value |-> Prev(ty),
                     change_percentage |->
                        ChangePercentage(current_by_type[ty], Prev(ty))]]
            ELSE <<>>]

\* The data that get_training_summary and export_to_csv work on, or the
\* exception: period[0] on the year dict raises KeyError(0).
FilteredFor(data, period, company_filter) ==
    LET by_period == IF period.kind = "none" THEN data[1]
                     ELSE filter_by_period(data[1], period.start, period.end)
    IN  IF period.kind = "year_dict" THEN [ok |-> FALSE, error |-> Error("0")]
        ELSE [ok |-> TRUE,
              trainingen |-> IF company_filter # <<>>
                             THEN filter_by_company(by_period, company_filter)
                             ELSE by_period]

HasNaT(trainingen) ==
    \E i \in 1..Len(trainingen) : trainingen[i].datum_inschrijving = NaT

\* SheetsAgent.get_training_summary.  _get_previous_period_data returns
\* None for every period that is not a dict; NaT.strftime raises.
get_training_summary(data, period, company_filter) ==
    LET f == FilteredFor(data, period, company_filter)
        tr == f.trainingen
        Of(test(_)) == SelectSeq(tr, test)
    IN  IF data = None THEN [kind |-> "error", error |-> Error("Sheet data not loaded")]
        ELSE IF ~f.ok THEN [kind |-> "error", error |-> f.error]
        ELSE IF HasNaT(tr)
        THEN [kind |-> "error", error |-> Error("NaTType does not support strftime")]
        ELSE [kind |-> "ok",
              total_value |-> get_total_revenue(tr),
              trainings |->
                [n \in {tr[i].training_naam : i \in 1..Len(tr)} |->
                    LET last == CHOOSE i \in 1..Len(tr) :
                                  /\ tr[i].training_naam = n
                                  /\ \A j \in (i + 1)..Len(tr) :
                                        tr[j].training_naam # n
                    IN  [total_registrations |-> 1,
                         registration_date |->
                            strftime(tr[last].datum_inschrijving),
                         value |-> tr[last].omzet]],
              by_type |->
                [ty \in {tr[i].type : i \in 1..Len(tr)} |->
                    [total_revenue |->
                        get_total_revenue(Of(LAMBDA t : t.type = ty)),
                     total_registrations |->
                        Len(Of(LAMBDA t : t.type = ty))]],
              by_company |->
                [c \in {tr[i].bedrijf : i \in 1..Len(tr)} |->
                    [total_revenue |->
                        get_total_revenue(Of(LAMBDA t :
                            LowerQuery(t.bedrijf) = LowerQuery(c))),
                     total_registrations |->
                        Len(Of(LAMBDA t :
                            LowerQuery(t.bedrijf) = LowerQuery(c))),
                     trainings |->
                        [i \in 1..Len(Of(LAMBDA t :
                                LowerQuery(t.bedrijf) = LowerQuery(c))) |->
                            Of(LAMBDA t : LowerQuery(t.bedrijf)
                                    = LowerQuery(c))[i].training_naam]]],
              period |-> "Alle data",
              trends |-> _calculate_trends(tr, None)]

\* TrainingData.to_dataframe and DataFrame.to_csv(sep=';'): the header row
\* (no column at all for a frame without rows) and the data rows
to_csv(trainingen) ==
    [header |-> IF trainingen = <<>> THEN <<>>
                ELSE <<"Datum Inschrijving", "Training", "Omzet", "Type",
                       "Bedrijf">>,
     rows |-> [i \in 1..Len(trainingen) |->
                [Datum_Inschrijving |->
                    strftime(trainingen[i].datum_inschrijving),
                 Training |-> trainingen[i].training_naam,
                 Omzet |-> FormatOmzet(trainingen[i].omzet),
                 Type |-> trainingen[i].type,
                 Bedrijf |-> trainingen[i].bedrijf]]]

\* export_to_csv that writes an empty file when nothing is loaded
export_to_csv_EmptyWhenNone(data, period, company_filter) ==
    LET f == FilteredFor(IF data = None THEN Some(<<>>) ELSE data,
                         period, company_filter)
    IN  IF ~f.ok THEN [kind |-> "error", error |-> f.error]
        ELSE IF HasNaT(f.trainingen)
        THEN [kind |-> "error", error |-> Error("NaTType does not support strftime")]
        ELSE [kind |-> "ok", csv |-> to_csv(f.trainingen)]

\* SheetsAgent.export_to_csv
export_to_csv(data, period, company_filter) ==
    LET f == FilteredFor(data, period, company_filter)
    IN  IF data = None THEN [kind |-> "error", error |-> Error("Geen data geladen")]
        ELSE IF ~f.ok THEN [kind |-> "error", error |-> f.error]
        ELSE IF HasNaT(f.trainingen)
        THEN [kind |-> "error", error |-> Error("NaTType does not support strftime")]
        ELSE [kind |-> "ok", csv |-> to_csv(f.trainingen)]

\* the periods that callers pass: none, or what _parse_query_period
\* returned for a query
PeriodsFor(queries, current_date) ==
    {NoPeriod} \cup
        {r \in {_parse_query_period(q, current_date) : q \in queries} :
            r.kind # "error"}

CompanyFilters == {<<>>, <<"ING">>}

GetTrainingSummary(queries) ==
    \E period \in PeriodsFor(queries, now), company_filter \in CompanyFilters :
        /\ out' = [pc |-> "done", op |-> "get_training_summary",
                   period |-> period, company_filter |-> company_filter,
                   result |-> get_training_summary(training_data, period,
                                                   company_filter)]
        /\ UNCHANGED <<now, training_data, conversation_history, load, pq, ing,
                       rl, agent>>

ExportToCsv(queries) ==
    \E period \in PeriodsFor(queries, now), company_filter \in CompanyFilters :
        /\ out' = [pc |-> "done", op |-> "export_to_csv",
                   period |-> period, company_filter |-> company_filter,
                   result |-> export_to_csv(training_data, period,
                                            company_filter)]
        /\ UNCHANGED <<now, training_data, conversation_history, load, pq, ing,
                       rl, agent>>

----------------------------------------------------------------------------
(* Specification of query_data as a function of snapshot, day and query *)

Row(datum, omzet) ==
    [Datum_Inschrijving |-> datum,
     Training |-> <<"Green", "Belt", "Training">>,
     Omzet |-> omzet, Type |-> <<"Green", "Belt">>, Bedrijf |-> <<"ING">>]

\* the snapshots that loading a sheet of the given rows can leave
Snapshots(rows) ==
    {Some(from_sheet_data(df).trainingen) :
        df \in {d \in SeqsUpTo(rows, MaxRows) : from_sheet_data(d).ok}}

QueryNows == {20230615, 20240331, 20241231}

QueryQueries ==
    {<<"omzet">>, <<"omzet", "2023">>, <<"2023">>, <<"2099">>,
     <<"omzet", "dit", "jaar">>, <<"vorig", "jaar">>, <<"deze", "maand">>,
     <<"januari", "2023">>}

InitQuery ==
    /\ now \in QueryNows
    /\ training_data \in {None} \cup Snapshots(SampleRows)
    /\ out \in {[pc |-> "call", op |-> "query_data", query |-> q] :
                    q \in QueryQueries}
    /\ conversation_history = <<>>
    /\ load = Idle
    /\ pq = Idle
    /\ ing = Idle
    /\ rl = Decorated
    /\ agent = TheAgent

QueryDataCall == out.pc = "call" /\ QueryData(out.query) /\ UNCHANGED <<rl, agent>>

NextQuery == QueryDataCall

SpecQuery == InitQuery /\ [][NextQuery]_vars

----------------------------------------------------------------------------
(* Specification of _calculate_trends as a function of the two sets *)

Text_15_02_2023 == <<"1", "5", "-", "0", "2", "-", "2", "0", "2", "3">>
Text_15_03_2022 == <<"1", "5", "-", "0", "3", "-", "2", "0", "2", "2">>
Text_100 == <<"1", "0", "0">>
Text_200 == <<"2", "0", "0">>

TypedRow(datum, omzet, type, bedrijf) ==
    [Row(datum, omzet) EXCEPT !.Type = type, !.Bedrijf = bedrijf]

\* the sets that sheets of the given rows load to
SetsOf(rows) == {d[1] : d \in Snapshots(rows)}

TrendRows ==
    {TypedRow(Text_15_03_2023, omzet, type, <<"ING">>) :
        omzet \in {Text_100, Text_300, Text_Minus_50},
        type \in {<<"Green", "Belt">>, <<"Black", "Belt">>}}

\* three records of 100, 200 and 300, and a previous total of 300
ExampleCurrent ==
    from_sheet_data(<<Row(Text_15_03_2023, Text_100),
                      Row(Text_15_03_2023, Text_200),
                      Row(Text_15_03_2023, Text_300)>>).trainingen
ExamplePrevious ==
    from_sheet_data(<<Row(Text_15_02_2023, Text_300)>>).trainingen

TrendSets == SetsOf(TrendRows) \cup {ExampleCurrent, ExamplePrevious}

InitTrends ==
    /\ out \in {[pc |-> "call", op |-> "_calculate_trends",
                 current |-> c, previous |-> p] :
                    c \in TrendSets,
                    p \in {None} \cup {Some(d) : d \in TrendSets}}
    /\ now \in {20240331}
    /\ training_data = None
    /\ conversation_history = <<>>
    /\ load = Idle
    /\ pq = Idle
    /\ ing = Idle
    /\ rl = Decorated
    /\ agent = TheAgent

CalculateTrends ==
    /\ out.pc = "call"
    /\ out.op = "_calculate_trends"
    /\ out' = [out EXCEPT !.pc = "done"]
                @@ [result |-> _calculate_trends(out.current, out.previous)]
    /\ UNCHANGED <<now, training_data, conversation_history, load, pq, ing,
                   rl, agent>>

NextTrends == CalculateTrends

SpecTrends == InitTrends /\ [][NextTrends]_vars

----------------------------------------------------------------------------
(* Specification of get_training_summary on a loaded agent *)

\* records of three months, two amounts, two types, and a company written
\* in two ways
SummaryRows ==
    {TypedRow(datum, omzet, type, bedrijf) :
        datum \in {Text_15_03_2023, Text_15_02_2023, Text_15_03_2022},
        omzet \in {Text_100, Text_300},
        type \in {<<"Green", "Belt">>, <<"Black", "Belt">>},
        bedrijf \in {<<"ING">>, <<"ing">>}}

SummaryQueries == {<<"maart", "2023">>, <<"q1", "2023">>}

InitSummary ==
    /\ now \in {20230615}
    /\ training_data \in Snapshots(SummaryRows)
    /\ out = Idle
    /\ conversation_history = <<>>
    /\ load = Idle
    /\ pq = Idle
    /\ ing = Idle
    /\ rl = Decorated
    /\ agent = TheAgent

NextSummary == GetTrainingSummary(SummaryQueries)

SpecSummary == InitSummary /\ [][NextSummary]_vars

----------------------------------------------------------------------------
(* Specification of the filters of TrainingData as functions *)

FilterRows ==
    {TypedRow(datum, Text_300, type, bedrijf) :
        datum \in {Text_15_03_2023, Text_1_1_2024, <<>>},
        type \in {<<"Green", "Belt">>, <<"Black", "Belt">>},
        bedrijf \in {<<"ING">>, <<"ASML">>}}

FilterRanges == {<<20230101, 20231231>>, <<20230315, 20240101>>}
TypeQueries == {<<"Green">>, <<"belt">>}
CompanyQueries == {<<"ing">>, <<"ASML">>}

InitFilter ==
    /\ out \in {[pc |-> "call", op |-> "filter", trainingen |-> d,
                 period |-> r, type_query |-> tq, company_query |-> cq] :
                    d \in SetsOf(FilterRows), r \in FilterRanges,
                    tq \in TypeQueries, cq \in CompanyQueries}
    /\ now \in {20240331}
    /\ training_data = None
    /\ conversation_history = <<>>
    /\ load = Idle
    /\ pq = Idle
    /\ ing = Idle
    /\ rl = Decorated
    /\ agent = TheAgent

\* the filters chained as data.filter_by_x(...).filter_by_y(...), in the
\* two orders
ApplyFilters ==
    /\ out.pc = "call"
    /\ out.op = "filter"
    /\ LET d == out.trainingen
           s == out.period[1]
           e == out.period[2]
       IN  out' = [out EXCEPT !.pc = "done"]
                @@ [period_type |->
                        filter_by_type(filter_by_period(d, s, e),
                                       out.type_query),
                    type_period |->
                        filter_by_period(filter_by_type(d, out.type_query),
                                         s, e),
                    period_company |->
                        filter_by_company(filter_by_period(d, s, e),
                                          out.company_query),
                    company_period |->
                        filter_by_period(
                            filter_by_company(d, out.company_query), s, e)]
    /\ UNCHANGED <<now, training_data, conversation_history, load, pq, ing,
                   rl, agent>>

NextFilter == ApplyFilters

SpecFilter == InitFilter /\ [][NextFilter]_vars

----------------------------------------------------------------------------
(* SheetsAgent.load_sheet_data, step by step *)

\* a row that parses, and a row whose date does not
MainRows ==
    {Row(Text_15_03_2023, Text_Euro_1234_56), Row(Text_31_02_2023, Text_300)}

MainQueries == {<<"dit", "jaar">>, <<"omzet", "2023">>}

\* sheet_service...get(...).execute() raises
LoadFetchRaises ==
    /\ load.pc = "idle"
    /\ load' = [pc |-> "raised"]
    /\ UNCHANGED <<now, training_data, conversation_history, pq, ing, out, rl, agent>>

\* execute() returns; values is empty, or a header row and the data rows,
\* and result.get('values', [])[0] raises IndexError on the empty list
LoadFetch ==
    /\ load.pc = "idle"
    /\ \E empty \in BOOLEAN, rows \in SeqsUpTo(MainRows, MaxRows) :
          load' = IF empty THEN [pc |-> "raised"]
                  ELSE [pc |-> "parsing", df |-> rows, idx |-> 1,
                        trainingen |-> <<>>, errors |-> <<>>]
    /\ UNCHANGED <<now, training_data, conversation_history, pq, ing, out, rl, agent>>

\* LoadParseRow that appends to the set of the agent as it goes
LoadParseRow_InPlace ==
    /\ load.pc = "parsing"
    /\ load.idx <= Len(load.df)
    /\ LET acc == ParseRow(load.df, load.idx,
                           [trainingen |-> load.trainingen,
                            errors |-> load.errors])
       IN  /\ load' = [load EXCEPT !.idx = @ + 1,
                                   !.trainingen = acc.trainingen,
                                   !.errors = acc.errors]
           /\ training_data' = Some(acc.trainingen)
    /\ UNCHANGED <<now, conversation_history, pq, ing, out, rl, agent>>

\* one turn of the loop of from_sheet_data
LoadParseRow ==
    /\ load.pc = "parsing"
    /\ load.idx <= Len(load.df)
    /\ LET acc == ParseRow(load.df, load.idx,
                           [trainingen |-> load.trainingen,
                            errors |-> load.errors])
       IN  load' = [load EXCEPT !.idx = @ + 1,
                                !.trainingen = acc.trainingen,
                                !.errors = acc.errors]
    /\ UNCHANGED <<now, training_data, conversation_history, pq, ing, out, rl, agent>>

\* from_sheet_data raises: load_sheet_data logs and re-raises
LoadRaise ==
    /\ load.pc = "parsing"
    /\ load.idx > Len(load.df)
    /\ ~ParseEnd(load).ok
    /\ load' = [pc |-> "raised"]
    /\ UNCHANGED <<now, training_data, conversation_history, pq, ing, out, rl, agent>>

\* self.training_data = TrainingData.from_sheet_data(df); return True
LoadAssign ==
    /\ load.pc = "parsing"
    /\ load.idx > Len(load.df)
    /\ ParseEnd(load).ok
    /\ training_data' = Some(ParseEnd(load).trainingen)
    /\ load' = Idle
    /\ UNCHANGED <<now, conversation_history, pq, ing, out, rl, agent>>

\* the exception reaches the caller of load_sheet_data
LoadRaised ==
    /\ load.pc = "raised"
    /\ load' = Idle
    /\ UNCHANGED <<now, training_data, conversation_history, pq, ing, out, rl, agent>>

----------------------------------------------------------------------------
(* Specification of the decorated query_data: the threads of the process   *)
(* (the sessions of streamlit_app.py, each with its own agent) call it at  *)
(* any time.                                                               *)

InitLimiter ==
    /\ now \in {20240331}
    /\ training_data \in
          {d \in Snapshots({Row(Text_15_03_2023, Text_300)}) : Len(d[1]) = 1}
    /\ conversation_history = <<>>
    /\ load = Idle
    /\ pq = Idle
    /\ ing = Idle
    /\ out = Idle
    /\ rl = Decorated
    /\ agent = TheAgent

NextLimiter ==
    \/ \E c \in Callers : LimitedCall(c)
    \/ \E c \in Callers : LimitedRetry(c)
    \/ Tick

SpecLimiter == InitLimiter /\ [][NextLimiter]_vars

\* Fair scheduling: time passes, a thread whose sleep is over runs, and a
\* thread that time and again wakes to a period with room left is not
\* overtaken every time.
SpecLimiterFair ==
    /\ InitLimiter /\ [][NextLimiter]_vars
    /\ WF_vars(Tick)
    /\ \A c \in Callers : WF_rl(RetryTurn(c))
    /\ \A c \in Callers : SF_rl(RetryTurnAdmitted(c))

----------------------------------------------------------------------------
(* The API process, src/src/api.py, and the export command of src/src/main.py. *)
(* The handlers are coroutines without an await in their bodies: each runs  *)
(* from its first line to its response without another handler in between. *)

\* raise HTTPException(status_code=..., detail=...), as the client gets it
HTTPException(status_code, detail) ==
    [status |-> status_code, detail |-> detail]

\* no call of query_data was made
NotCalled == [kind |-> "none", called |-> FALSE, attempts |-> 0]

\* what sheet_service...get(...).execute() gives a load: it raises, or it
\* returns no values at all, or a header row and the data rows
Fetched(rows) ==
    {[kind |-> "raises"], [kind |-> "empty"]}
        \cup {[kind |-> "values", df |-> df] : df \in SeqsUpTo(rows, MaxRows)}

\* SheetsAgent.load_sheet_data as one call: the exception it re-raises, or
\* the set it has assigned to training_data
load_sheet_data(fetched) ==
    IF fetched.kind = "raises"
    THEN [ok |-> FALSE, error |-> Error("HttpError")]
    ELSE IF fetched.kind = "empty"
    THEN [ok |-> FALSE, error |-> Error("list index out of range")]
    ELSE IF ~from_sheet_data(fetched.df).ok
    THEN [ok |-> FALSE, error |-> Error("Errors parsing data")]
    ELSE [ok |-> TRUE,
          training_data |-> Some(from_sheet_data(fetched.df).trainingen)]

ApiRows == {Row(Text_15_03_2023, Text_300), Row(Text_31_02_2023, Text_300)}

ApiQueries == {<<"dit", "jaar">>, <<"maart", "2099">>}

\* the query of an export request: none, or a text
ExportQueries == {<<>>, <<"exporteer", "ING">>, <<"exporteer", "maart", "2099">>}

\* POST /vraag, the whole handler: the HTTPException(503) of a process
\* without agent is raised inside the try block and caught there
ProcessQuestionRequest ==
    /\ Len(conversation_history) < 2 * MaxPairs
    /\ \E vraag \in ApiQueries :
          IF agent = NoAgent \/ training_data = None
          THEN /\ out' = [pc |-> "done", op |-> "process_question",
                          query |-> vraag, result |-> NotCalled,
                          response |-> process_question(agent # NoAgent,
                                            training_data, NotCalled)]
               /\ UNCHANGED <<now, training_data, conversation_history,
                              load, pq, ing>>
          ELSE ProcessQuestion(vraag)
    /\ UNCHANGED <<rl, agent>>

\* the response of /ververs to the outcome of agent.load_sheet_data(...);
\* on None the attribute lookup raises AttributeError
ververs_data(agent_present, loaded) ==
    IF ~agent_present
    THEN HTTPException(500,
            Error("'NoneType' object has no attribute 'load_sheet_data'"))
    ELSE IF ~loaded.ok THEN HTTPException(500, loaded.error)
    ELSE [status |-> 200, body |-> "Data ververst"]

\* VerversData of a handler that builds and loads the agent when there is
\* none
VerversData_Rebuilds ==
    \E fetched \in Fetched(ApiRows) :
        /\ out' = [pc |-> "done", op |-> "ververs_data",
                   response |-> ververs_data(TRUE, load_sheet_data(fetched))]
        /\ training_data' = IF load_sheet_data(fetched).ok
                            THEN load_sheet_data(fetched).training_data
                            ELSE training_data
        /\ agent' = IF load_sheet_data(fetched).ok THEN TheAgent ELSE agent
        /\ UNCHANGED <<now, conversation_history, load, pq, ing, rl>>

\* GET /ververs, the whole handler
VerversData ==
    \E fetched \in Fetched(ApiRows) :
        /\ out' = [pc |-> "done", op |-> "ververs_data",
                   response |-> ververs_data(agent # NoAgent,
                                             load_sheet_data(fetched))]
        /\ training_data' = IF agent # NoAgent /\ load_sheet_data(fetched).ok
                            THEN load_sheet_data(fetched).training_data
                            ELSE training_data
        /\ UNCHANGED <<now, conversation_history, load, pq, ing, rl, agent>>

\* GET /health: its HTTPException is raised outside any try block
HealthCheck ==
    /\ out' = [pc |-> "done", op |-> "health_check",
               response |-> IF agent = NoAgent
                            THEN HTTPException(503,
                                    Error("SheetsAgent not initialized"))
                            ELSE [status |-> 200, body |-> "healthy"]]
    /\ UNCHANGED <<now, training_data, conversation_history, load, pq, ing,
                   rl, agent>>

\* the exception that ends the export paths, at the first statement that
\* raises: the query is missing (the HTTPException(400) of /export), there
\* is no agent, the period is in the future, or the lookup of
\* agent.sheet_data, an attribute that SheetsAgent never sets
export_raises(agent_present, export_query, period) ==
    IF export_query = <<>>
    THEN [status |-> 400, error |-> Error("Query parameter is required")]
    ELSE IF ~agent_present
    THEN [status |-> 0,
          error |-> Error("'NoneType' object has no attribute '_parse_query_period'")]
    ELSE IF period.kind = "error" THEN [status |-> 0, error |-> period]
    ELSE [status |-> 0,
          error |-> Error("'SheetsAgent' object has no attribute 'sheet_data'")]

\* GET or POST /export, the whole handler: every exception of the try
\* block, the HTTPException(400) included, is answered by the except clause
ExportData ==
    \E export_query \in ExportQueries :
        /\ out' = [pc |-> "done", op |-> "export_data",
                   query |-> export_query,
                   exported |-> FALSE,
                   response |->
                      HTTPException(500,
                          export_raises(agent # NoAgent, export_query,
                              _parse_query_period(export_query, now)).error)]
        /\ UNCHANGED <<now, training_data, conversation_history, load, pq,
                       ing, rl, agent>>

\* the 'exporteer' command of main.py, on the agent that main has built and
\* loaded: the exception is caught and reported on the terminal
MainExporteer ==
    /\ agent # NoAgent
    /\ training_data # None
    /\ \E user_query \in ExportQueries \ {<<>>} :
          out' = [pc |-> "done", op |-> "exporteer", query |-> user_query,
                  exported |-> FALSE,
                  printed |-> Wrap("Fout bij exporteren",
                                 export_raises(TRUE, user_query,
                                    _parse_query_period(user_query, now)).error)]
    /\ UNCHANGED <<now, training_data, conversation_history, load, pq, ing,
                   rl, agent>>

\* the import of api.py: the agent is built and loaded, or either step
\* raised and the name agent is bound to None
InitApi ==
    /\ now \in {20240331}
    /\ \/ agent = TheAgent /\ training_data \in Snapshots(ApiRows)
       \/ agent = NoAgent /\ training_data = None
    /\ conversation_history = <<>>
    /\ load = Idle
    /\ pq = Idle
    /\ ing = Idle
    /\ out = Idle
    /\ rl = Decorated

NextApi ==
    \/ ProcessQuestionRequest
    \/ VerversData
    \/ HealthCheck
    \/ ExportData
    \/ MainExporteer

SpecApi == InitApi /\ [][NextApi]_vars

----------------------------------------------------------------------------
(* Specification of the agent *)

Init ==
    /\ now \in {20240331}
    /\ training_data = None
    /\ conversation_history = <<>>
    /\ load = Idle
    /\ pq = Idle
    /\ ing = Idle
    /\ out = Idle
    /\ rl = Decorated
    /\ agent = TheAgent

QueryDataAny ==
    /\ Len(conversation_history) < 2 * MaxPairs
    /\ \E q \in MainQueries : QueryData(q)
    /\ UNCHANGED <<rl, agent>>

ProcessQuestionAny ==
    /\ Len(conversation_history) < 2 * MaxPairs
    /\ \E q \in MainQueries : ProcessQuestion(q)
    /\ UNCHANGED <<rl, agent>>

Next ==
    \/ LoadFetchRaises
    \/ LoadFetch
    \/ LoadParseRow
    \/ LoadRaise
    \/ LoadAssign
    \/ LoadRaised
    \/ QueryDataAny
    \/ ProcessQuestionAny
    \/ GetTrainingSummary(MainQueries)
    \/ ExportToCsv(MainQueries)

Spec == Init /\ [][Next]_vars

----------------------------------------------------------------------------
(* What the claims about the period resolver speak of *)

FirstDay(y, m) == MkDate(y, m, 1)
LastDay(y, m) == MkDate(y, m, DaysInMonth(y, m))

Says(q, phrase) == Contains(LowerQuery(q), phrase)

\* the months and the quarter keys that a query names
NamedMonths(q) == {m \in 1..12 : Says(q, <<months[m]>>)}
NamedQuarters(q) == {k \in 1..8 : Says(q, QuarterWords(k))}
NamedYears(q) == {YearInWord(Lower(q[i])) : i \in 1..Len(q)} \ {0}

\* the year of a query: the leftmost one it names, else the current year
QueryYear(q, today) ==
    IF YearMatch(LowerQuery(q)) # 0 THEN YearMatch(LowerQuery(q))
    ELSE YearOf(today)

SaysRelativeMonth(q) ==
    Says(q, <<"deze", "maand">>) \/ Says(q, <<"vorige", "maand">>)
SaysRelativeYear(q) ==
    Says(q, <<"dit", "jaar">>) \/ Says(q, <<"vorig", "jaar">>)

IsFutureError(r) == r.kind = "error" /\ r.text = "toekomst"

\* r is what resolving month m of year y gives
MonthOutcome(r, y, m, today) ==
    IF FirstDay(y, m) > today
    THEN IsFutureError(r) /\ r.name = months[m] /\ r.year = y
    ELSE r = Range(FirstDay(y, m), LastDay(y, m))

\* r is what resolving the quarter of key k of year y gives
QuarterOutcome(r, y, k, today) ==
    IF FirstDay(y, quarters[k][2]) > today
    THEN IsFutureError(r) /\ r.name = quarters[k][1] /\ r.year = y
    ELSE r = Range(FirstDay(y, quarters[k][2]), LastDay(y, quarters[k][3]))

PqDone == pq.pc = "done"

\* C1 as stated: the quarter rule is tried first, so a query that names a
\* quarter resolves to that quarter even when it also names a month or a
\* relative month.
C1_QuarterDecides ==
    (PqDone /\ NamedQuarters(pq.query) # {}) =>
        \E k \in NamedQuarters(pq.query) :
            QuarterOutcome(pq.result, QueryYear(pq.query, now), k, now)

\* C1 amended: the rules are tried in the order month name, 'deze maand',
\* 'vorige maand', quarter keyword, year, all time, and the first rule that
\* matches decides the result; a query that names a quarter and a month
\* resolves to the month.
C1_FirstMatchWins ==
    PqDone =>
        LET q == pq.query
            r == pq.result
            y == QueryYear(q, now)
            cy == YearOf(now)
            cm == MonthOf(now)
            py == IF cm = 1 THEN cy - 1 ELSE cy
            pm == IF cm = 1 THEN 12 ELSE cm - 1
        IN  IF NamedMonths(q) # {}
            THEN \E m \in NamedMonths(q) : MonthOutcome(r, y, m, now)
            ELSE IF Says(q, <<"deze", "maand">>)
            THEN r = Range(FirstDay(cy, cm), LastDay(cy, cm))
            ELSE IF Says(q, <<"vorige", "maand">>)
            THEN r = Range(FirstDay(py, pm), LastDay(py, pm))
            ELSE IF NamedQuarters(q) # {}
            THEN \E k \in NamedQuarters(q) : QuarterOutcome(r, y, k, now)
            ELSE IF NamedYears(q) # {}
            THEN \/ r = YearDict(y)
                 \/ IsFutureError(r) /\ r.name = "het jaar"
            ELSE r = Range(min_date, now)

\* a query that names a quarter and a month has resolved to the month
C1_Witness ==
    /\ PqDone
    /\ NamedQuarters(pq.query) # {}
    /\ NamedMonths(pq.query) = {2}
    /\ pq.result = Range(20230201, 20230228)

C3_FutureFails ==
    PqDone =>
        LET q == pq.query
            r == pq.result
            y == QueryYear(q, now)
        IN  /\ NamedMonths(q) # {} =>
                 \E m \in NamedMonths(q) :
                    /\ IsFutureError(r) <=> FirstDay(y, m) > now
                    /\ IsFutureError(r) => r.name = months[m] /\ r.year = y
            /\ (NamedMonths(q) = {} /\ ~SaysRelativeMonth(q)
                    /\ NamedQuarters(q) # {}) =>
                 \E k \in NamedQuarters(q) :
                    /\ IsFutureError(r) <=> FirstDay(y, quarters[k][2]) > now
                    /\ IsFutureError(r) =>
                          r.name = quarters[k][1] /\ r.year = y
            /\ (NamedMonths(q) = {} /\ ~SaysRelativeMonth(q)
                    /\ NamedQuarters(q) = {} /\ NamedYears(q) # {}) =>
                    /\ IsFutureError(r) <=> FirstDay(y, 1) > now
                    /\ IsFutureError(r) => r.name = "het jaar" /\ r.year = y
            /\ q = <<"omzet", "in", "januari", "2099">> => IsFutureError(r)

C3_Witness ==
    /\ PqDone
    /\ pq.query = <<"omzet", "in", "januari", "2099">>
    /\ IsFutureError(pq.result)
    /\ pq.result.name = "januari"
    /\ pq.result.year = 2099

\* C4: a query for which a relative phrase decides ('deze maand' or 'vorige
\* maand' with no month name; 'dit jaar' or 'vorig jaar' with no month,
\* relative month, quarter or year) never fails with the future-period
\* error, whatever the day and whatever else the query contains.
C4_RelativeNeverFuture ==
    PqDone =>
        LET q == pq.query
        IN  /\ (NamedMonths(q) = {} /\ SaysRelativeMonth(q))
                 => pq.result.kind = "range"
            /\ (NamedMonths(q) = {} /\ ~SaysRelativeMonth(q)
                    /\ NamedQuarters(q) = {} /\ NamedYears(q) = {}
                    /\ SaysRelativeYear(q))
                 => pq.result.kind # "error"

\* 'deze maand' next to a year in the future has resolved to a range
C4_Witness ==
    /\ PqDone
    /\ Says(pq.query, <<"deze", "maand">>)
    /\ NamedYears(pq.query) = {2099}
    /\ pq.result.kind = "range"

\* C7: when 'vorige maand' decides, the result is [first day, last day] of
\* the calendar month before the current one (December of the year before
\* in January, the whole shorter month on the 29th to 31st); when 'deze
\* maand' decides, it is [first day, last day] of the current month.
C7_RelativeMonths ==
    (PqDone /\ NamedMonths(pq.query) = {}) =>
        LET cy == YearOf(now)
            cm == MonthOf(now)
        IN  /\ Says(pq.query, <<"deze", "maand">>) =>
                 pq.result = Range(MkDate(cy, cm, 1), LastDay(cy, cm))
            /\ ( /\ Says(pq.query, <<"vorige", "maand">>)
                 /\ ~Says(pq.query, <<"deze", "maand">>) ) =>
                 IF cm = 1
                 THEN pq.result = Range(MkDate(cy - 1, 12, 1),
                                        MkDate(cy - 1, 12, 31))
                 ELSE pq.result = Range(MkDate(cy, cm - 1, 1),
                                        LastDay(cy, cm - 1))

\* on 31 January 2023 'vorige maand' has resolved to December 2022
C7_Witness ==
    /\ PqDone
    /\ now = 20230131
    /\ Says(pq.query, <<"vorige", "maand">>)
    /\ pq.result = Range(20221201, 20221231)

----------------------------------------------------------------------------
(* Claims about ingestion *)

IngDone == ing.pc = "done"

\* the indices (from 0) of the rows whose date or revenue does not parse
FailingRows(df) ==
    {i - 1 : i \in {j \in 1..Len(df) :
        \/ ~to_datetime(df[j].Datum_Inschrijving).ok
        \/ ~clean_omzet(df[j].Omzet).ok}}

\* C8: if at least one row fails to parse its date or revenue,
\* from_sheet_data raises, produces no set, and reports every failing row
\* once, in row order; if no row fails, the set holds one Training per row,
\* in row order.
C8_AllOrNothing ==
    IngDone =>
        LET df == ing.df
            r == ing.result
        IN  IF FailingRows(df) # {}
            THEN /\ ~r.ok
                 /\ Len(r.errors) = Cardinality(FailingRows(df))
                 /\ {r.errors[i] : i \in 1..Len(r.errors)} = FailingRows(df)
                 /\ \A i \in 1..(Len(r.errors) - 1) : r.errors[i] < r.errors[i + 1]
            ELSE /\ r.ok
                 /\ Len(r.trainingen) = Len(df)
                 /\ \A i \in 1..Len(df) :
                      /\ r.trainingen[i].training_naam = df[i].Training
                      /\ r.trainingen[i].datum_inschrijving
                            = to_datetime(df[i].Datum_Inschrijving).value
                      /\ r.trainingen[i] = from_row(df[i]).training

\* a sheet of two rows that both fail has raised with two items
C8_Witness ==
    /\ IngDone
    /\ Len(ing.df) = 2
    /\ ~ing.result.ok
    /\ ing.result.errors = <<0, 1>>

----------------------------------------------------------------------------
(* Claims about query_data *)

QdDone == out.pc = "done" /\ out.op = "query_data"

InYear(trainingen, y) ==
    SelectSeq(trainingen, LAMBDA t : YearOf(t.datum_inschrijving) = y)

\* the query names a year, not after the current one, and no month,
\* relative month or quarter
NamesPastYearOnly(q, today) ==
    /\ NamedYears(q) # {}
    /\ QueryYear(q, today) <= YearOf(today)
    /\ NamedMonths(q) = {}
    /\ NamedQuarters(q) = {}
    /\ ~SaysRelativeMonth(q)

\* C5 as stated: on a loaded agent, a query that names a year not after the
\* current one, and no month, is not rejected before the completion
\* service is called, and when answered it is answered over exactly the
\* records registered from 1 January to 31 December of that year.
C5_YearQueryAnswered ==
    (QdDone /\ training_data # None /\ NamesPastYearOnly(out.query, now)) =>
        /\ out.result.called
        /\ out.result.kind = "ok" =>
            /\ out.result.context.periode
                  = <<FirstDay(QueryYear(out.query, now), 1),
                      LastDay(QueryYear(out.query, now), 12)>>
            /\ out.result.filtered
                  = InYear(training_data[1], QueryYear(out.query, now))

\* the query has nothing but a relative year to go by
NamesRelativeYearOnly(q) ==
    /\ SaysRelativeYear(q)
    /\ NamedYears(q) = {}
    /\ NamedMonths(q) = {}
    /\ NamedQuarters(q) = {}
    /\ ~SaysRelativeMonth(q)

\* the year that 'dit jaar' or 'vorig jaar' stands for
RelativeYear(q, today) ==
    IF Says(q, <<"dit", "jaar">>) THEN YearOf(today) ELSE YearOf(today) - 1

\* C6 as stated: a query answered on 'dit jaar' (or 'vorig jaar') alone is
\* answered over the records of the current (or previous) calendar year:
\* no record of another year is in the filtered set or in the total.
C6_RelativeYearOnly ==
    (QdDone /\ out.result.kind = "ok" /\ NamesRelativeYearOnly(out.query)) =>
        /\ \A i \in 1..Len(out.result.filtered) :
              YearOf(out.result.filtered[i].datum_inschrijving)
                  = RelativeYear(out.query, now)
        /\ out.result.context.totale_omzet
              = get_total_revenue(
                    InYear(training_data[1], RelativeYear(out.query, now)))

----------------------------------------------------------------------------
(* Claims about the agent *)

\* the set that a sheet parses to when none of its rows fails
CompleteSet(df) == [i \in 1..Len(df) |-> from_row(df[i]).training]

\* C9: training_data changes only in the step that ends a load of a sheet
\* whose every row parsed, and then to the complete set of that sheet; so
\* it is at every moment None or a complete snapshot, and a refresh that
\* fails leaves it as it was.
C9_AtomicSwap ==
    [][ training_data' # training_data =>
            /\ load.pc = "parsing"
            /\ load'.pc = "idle"
            /\ FailingRows(load.df) = {}
            /\ training_data' = Some(CompleteSet(load.df)) ]_vars

\* a refresh is half-way through a sheet of two rows while the agent holds
\* the previous snapshot
C9_Witness ==
    /\ load.pc = "parsing"
    /\ Len(load.df) = 2
    /\ load.idx = 2
    /\ Len(load.trainingen) = 1
    /\ training_data # None
    /\ Len(training_data[1]) = 2

\* C10 as stated: conversation_history holds at most 5 (user, assistant)
\* pairs.
C10_AtMostFivePairs == Len(conversation_history) <= 2 * max_history

\* a call of query_data, made directly or by the /vraag handler, has ended
CalledQueryData(o) ==
    o.pc = "done" /\ o.op \in {"query_data", "process_question"}

\* the step is a call of query_data that ends
QueryDataStep ==
    /\ CalledQueryData(out')
    /\ out' # out \/ conversation_history' # conversation_history

\* the turns of a history from position i on
TurnsFrom(history, i) == [j \in 1..(Len(history) - i + 1) |-> history[i + j - 1]]

\* C11: the messages that a call of query_data passes to the completion
\* service are the system prompt, then the last 5 entries of the
\* conversation history as it is when the call is made (all of them when
\* there are fewer), in their order, then the user message with the context
\* and the query; no older entry is sent.
C11_MessageWindow ==
    [][ (QueryDataStep /\ out'.result.called) =>
            LET h == conversation_history
                n == Len(h)
                first == IF n > 5 THEN n - 4 ELSE 1
                m == out'.result.messages
            IN  /\ Len(m) = (n - first + 1) + 2
                /\ m[1] = [role |-> "system", content |-> system_prompt]
                /\ SubSeq(m, 2, Len(m) - 1) = TurnsFrom(h, first)
                /\ m[Len(m)].role = "user"
                /\ m[Len(m)].content.vraag = out'.query ]_vars

\* a call has been made on a history of more than 5 entries: seven messages
\* were sent, the oldest of them an answer
C11_Witness ==
    /\ CalledQueryData(out)
    /\ out.result.called
    /\ Len(conversation_history) >= 8
    /\ Len(out.result.messages) = 7
    /\ out.result.messages[2].role = "assistant"

\* C12: a call of query_data that succeeds appends to conversation_history
\* the user entry with the query and then the assistant entry with the
\* answer returned, and nothing else; a call that fails, at whatever step,
\* leaves conversation_history as it was.
C12_PairOrNothing ==
    [][ QueryDataStep =>
            IF out'.result.kind = "ok"
            THEN conversation_history' =
                    conversation_history
                        \o <<[role |-> "user", content |-> out'.query],
                             [role |-> "assistant",
                              content |-> out'.result.answer]>>
            ELSE conversation_history' = conversation_history ]_vars

\* after one call that succeeded, a call has failed in the completion
\* service and the history still holds the one pair
C12_Witness ==
    /\ CalledQueryData(out)
    /\ out.result.kind = "error"
    /\ out.result.called
    /\ Len(conversation_history) = 2
    /\ conversation_history[1].role = "user"
    /\ conversation_history[2].role = "assistant"

\* C15 as stated: a call of query_data that surfaces a failure of the
\* completion service has called the service more than once (it retried),
\* and a call that fails on the period has not called it at all.
C15_RetriesCompletion ==
    (CalledQueryData(out) /\ out.result.kind = "error") =>
        IF out.result.called
        THEN out.result.attempts >= 2
        ELSE out.result.attempts = 0

\* C16 as stated: when the completion service fails, the error of
\* query_data, and the detail of the response of /vraag, do not contain the
\* message of the downstream error.
C16_GenericMessage ==
    (CalledQueryData(out) /\ out.result.kind = "error" /\ out.result.called) =>
        /\ out.result.error.text \notin DownstreamErrors
        /\ out.op = "process_question" =>
              out.response.detail.text \notin DownstreamErrors

\* the error of a reader that found no data loaded
IsNoDataError(e) ==
    e.kind = "error" /\ e.text \in {"Geen data geladen", "Sheet data not loaded"}

\* C17: while training_data is None, every call of query_data,
\* get_training_summary and export_to_csv has failed with the no-data
\* error, query_data without calling the completion service, and the
\* conversation history is as it was at construction.
C17_NoDataLoaded ==
    (training_data = None /\ out.pc = "done") =>
        /\ out.result.kind = "error"
        /\ IsNoDataError(out.result.error)
        /\ out.op = "query_data" =>
              ~out.result.called /\ out.result.attempts = 0
        /\ conversation_history = <<>>

\* export_to_csv has been refused while a first load is parsing its sheet
C17_Witness ==
    /\ training_data = None
    /\ load.pc = "parsing"
    /\ out.pc = "done"
    /\ out.op = "export_to_csv"
    /\ IsNoDataError(out.result.error)

----------------------------------------------------------------------------
(* Claims about the rate limiter *)

RECURSIVE SumOver(_, _)
SumOver(f, S) ==
    IF S = {} THEN 0
    ELSE LET t == CHOOSE t \in S : TRUE IN f[t] + SumOver(f, S \ {t})

\* the executions of query_data in the last ONE_MINUTE seconds
ExecutionsInWindow == SumOver(rl.recent, DOMAIN rl.recent)

\* C13 as stated: at every moment, the executions of query_data in the 60
\* seconds up to that moment, over all callers and agents, number at most
\* MAX_REQUESTS_PER_MINUTE.
C13_RollingWindow == ExecutionsInWindow <= MAX_REQUESTS_PER_MINUTE

----------------------------------------------------------------------------
(* Claims about trends and filters *)

\* fraction f is the percentage by which current differs from previous,
\* (current - previous) / previous * 100: both are zero, or they are the
\* same numerator over the same denominator
IsChange(f, current, previous) ==
    \/ f[1] = 0 /\ current = previous
    \/ f = <<(current - previous) * 100, previous>>

\* the revenue of the trainings of a type in a set, 0 for None
RevenueOfType(data, ty) ==
    IF data = None THEN 0
    ELSE get_total_revenue(SelectSeq(data[1], LAMBDA t : t.type = ty))

\* f is what C18 says of current against previous
AsClaimed(f, current, previous) ==
    IF previous = 0 THEN f[1] = 0 ELSE IsChange(f, current, previous)

\* C18 as stated: _calculate_trends gives, for the total and for each type
\* of the current set, (current - previous) / previous * 100, and 0 when
\* previous is 0, also when there is no previous data; 600 against 300
\* gives 100.
C18_ChangePercentage ==
    (out.pc = "done" /\ out.op = "_calculate_trends") =>
        LET r == out.result
            current_total == get_total_revenue(out.current)
            previous_total ==
                IF out.previous = None THEN 0
                ELSE get_total_revenue(out.previous[1])
            types == {out.current[i].type : i \in 1..Len(out.current)}
        IN  /\ AsClaimed(r.total_change_percentage, current_total,
                         previous_total)
            /\ \A ty \in types :
                  /\ ty \in DOMAIN r.by_type
                  /\ AsClaimed(r.by_type[ty].change_percentage,
                               RevenueOfType(Some(out.current), ty),
                               RevenueOfType(out.previous, ty))
            /\ (current_total = 60000 /\ previous_total = 30000) =>
                  r.total_change_percentage[1]
                     = 100 * r.total_change_percentage[2]

\* the period before a resolved month or quarter: the calendar month
\* before, or the same months one year earlier
PreviousPeriod(period) ==
    IF MonthOf(period.start) = MonthOf(period.end)
    THEN LET last == MinusOneMonth(period.start)
         IN  Range(FirstDay(YearOf(last), MonthOf(last)),
                   LastDay(YearOf(last), MonthOf(last)))
    ELSE Range(MkDate(YearOf(period.start) - 1, MonthOf(period.start), 1),
               LastDay(YearOf(period.end) - 1, MonthOf(period.end)))

\* C19 as stated: the trends of a summary for a resolved period compare the
\* total of the filtered set with the total of the snapshot filtered on the
\* period before, and when that total is positive the change reported is
\* the formula value.
C19_TrendsAgainstPrevious ==
    ( /\ out.pc = "done" /\ out.op = "get_training_summary"
      /\ out.result.kind = "ok" /\ out.period.kind = "range" ) =>
        LET before == PreviousPeriod(out.period)
            previous == FilteredFor(training_data, before,
                                    out.company_filter).trainingen
        IN  get_total_revenue(previous) > 0 =>
                IsChange(out.result.trends.total_change_percentage,
                         out.result.total_value,
                         get_total_revenue(previous))

\* C20: filter_by_period followed by filter_by_type gives the same
\* trainings in the same order as filter_by_type followed by
\* filter_by_period, and likewise with filter_by_company.
C20_FiltersCommute ==
    (out.pc = "done" /\ out.op = "filter") =>
        /\ out.period_type = out.type_period
        /\ out.period_company = out.company_period

\* each filter has dropped a different training of a set of two, in both
\* orders
C20_Witness ==
    /\ out.pc = "done"
    /\ out.op = "filter"
    /\ Len(out.trainingen) = 2
    /\ out.trainingen[1].type # out.trainingen[2].type
    /\ out.trainingen[1].datum_inschrijving = 20240101
    /\ out.period = <<20230101, 20231231>>
    /\ out.type_query = <<"Green">>
    /\ out.trainingen[1].type = <<"Green", "Belt">>
    /\ out.period_type = <<>>
    /\ out.type_period = <<>>
    /\ Len(out.period_company) = 1

----------------------------------------------------------------------------
(* Claims about the normalizers *)

\* C21 as stated: clean_training_name applied to its own result returns
\* that result, for every text, and "Green Belt Training 12/12/2024"
\* becomes "Green Belt Training".
C21_Idempotent ==
    (out.pc = "done" /\ out.op = "clean_training_name") =>
        /\ out.twice = out.once
        /\ out.text = Text_Green_Belt_Training \o <<" ", "1", "2", "/", "1", "2", "/", "2", "0", "2", "4">>
              => out.once = Text_Green_Belt_Training

\* the name ends in the suffix of index k1 followed by that of index k2
EndsInChain(name, k1, k2) ==
    EndsWith(LowerText(name), suffixes[k1] \o suffixes[k2])

\* C22 as stated: of a name that ends in two chained legal suffixes,
\* clean_company_name removes the last one only, whatever their order.
C22_OneSuffixOnly ==
    (out.pc = "done" /\ out.op = "clean_company_name") =>
        \A k1, k2 \in 1..Len(suffixes) :
            EndsInChain(out.text, k1, k2) =>
                out.once = SubSeq(out.text, 1,
                                  Len(out.text) - Len(suffixes[k2]))

\* C25 as stated: every Training of a set built from a sheet holds the
\* cleaned training name and the cleaned company name of its row.
C25_NormalizedFields ==
    (ing.pc = "done" /\ ing.result.ok) =>
        \A i \in 1..Len(ing.result.trainingen) :
            /\ ing.result.trainingen[i].training_naam
                  = clean_training_name(ing.df[i].Training)
            /\ ing.result.trainingen[i].bedrijf
                  = clean_company_name(ing.df[i].Bedrijf)

\* C26 as stated: no Training of a set built from a sheet has a negative
\* omzet, a row with a negative amount being rejected.
C26_NonNegativeRevenue ==
    (ing.pc = "done" /\ ing.result.ok) =>
        /\ \A i \in 1..Len(ing.result.trainingen) :
              ing.result.trainingen[i].omzet >= 0
        /\ get_total_revenue(ing.result.trainingen) >= 0

----------------------------------------------------------------------------
(* Claims about the export and the summary *)

\* a call of export_to_csv on a loaded agent for a period it can filter on
ExportStep ==
    /\ out' # out
    /\ out'.pc = "done"
    /\ out'.op = "export_to_csv"
    /\ training_data # None
    /\ out'.period.kind # "year_dict"

\* the columns of the export
ExportColumns ==
    <<"Datum Inschrijving", "Training", "Omzet", "Type", "Bedrijf">>

\* C23 as stated: for a filtered set of n >= 0 records export_to_csv writes
\* one header row with the five columns and then n data rows, one per
\* record in the order of the set, the date written dd-mm-yyyy.
C23_HeaderAndRows ==
    [][ExportStep =>
        LET f == FilteredFor(training_data, out'.period,
                             out'.company_filter).trainingen
        IN  /\ out'.result.kind = "ok"
            /\ out'.result.csv.header = ExportColumns
            /\ Len(out'.result.csv.rows) = Len(f)
            /\ \A i \in 1..Len(f) :
                  /\ out'.result.csv.rows[i].Datum_Inschrijving
                        = strftime(f[i].datum_inschrijving)
                  /\ out'.result.csv.rows[i].Training = f[i].training_naam
                  /\ out'.result.csv.rows[i].Type = f[i].type
                  /\ out'.result.csv.rows[i].Bedrijf = f[i].bedrijf]_vars

----------------------------------------------------------------------------
(* Claims about the API process *)

\* C24 as stated: an export request (of /export or of the CLI) on a loaded
\* agent, with a query whose period resolves, gets to export_to_csv with
\* the company filter detected from the dataset, and succeeds.
C24_ExportSucceeds ==
    ( /\ out.pc = "done"
      /\ out.op \in {"export_data", "exporteer"}
      /\ agent # NoAgent
      /\ out.query # <<>>
      /\ _parse_query_period(out.query, now).kind # "error" ) =>
        /\ out.exported
        /\ out.op = "export_data" => out.response.status = 200

\* the requests that C29 is about
NeedsAgent == {"process_question", "ververs_data", "export_data"}

\* C29: when the start-up left agent None it stays None, no data is ever
\* loaded, and every /vraag, /ververs and /export request has failed.
C29_NoAgentForever ==
    /\ [](agent = NoAgent =>
            /\ training_data = None
            /\ (out.pc = "done" /\ out.op \in NeedsAgent) =>
                  out.response.status >= 400)
    /\ [][agent = NoAgent => agent' = NoAgent]_vars

\* a refresh has been asked of a process without agent, and refused
C29_Witness ==
    /\ agent = NoAgent
    /\ out.pc = "done"
    /\ out.op = "ververs_data"
    /\ out.response.status = 500
    /\ training_data = None

\* C30 as stated: /vraag on a process without agent answers 503, and
\* /export without a query answers 400.
C30_StatusPreserved ==
    out.pc = "done" =>
        /\ (out.op = "process_question" /\ agent = NoAgent) =>
              out.response.status = 503
        /\ (out.op = "export_data" /\ out.query = <<>>) =>
              out.response.status = 400

----------------------------------------------------------------------------
(* Claims about the breakdowns of the summary *)

\* the sum of total_registrations, and of total_revenue, over the entries
\* of a breakdown
Registrations(breakdown) ==
    SumOver([k \in DOMAIN breakdown |-> breakdown[k].total_registrations],
            DOMAIN breakdown)
Revenue(breakdown) ==
    SumOver([k \in DOMAIN breakdown |-> breakdown[k].total_revenue],
            DOMAIN breakdown)

\* C27 as stated: in a summary, the entries of by_type, and those of
\* by_company, count every filtered record once: their registrations sum
\* to the number of filtered records and their revenue to total_value,
\* also when company names differ in letter case only.
C27_BreakdownsPartition ==
    ( /\ out.pc = "done" /\ out.op = "get_training_summary"
      /\ out.result.kind = "ok" ) =>
        LET n == Len(FilteredFor(training_data, out.period,
                                 out.company_filter).trainingen)
        IN  /\ Registrations(out.result.by_type) = n
            /\ Revenue(out.result.by_type) = out.result.total_value
            /\ Registrations(out.result.by_company) = n
            /\ Revenue(out.result.by_company) = out.result.total_value

\* C28: every (start, end) pair that _parse_query_period returns has
\* start <= end and start <= now; the end may lie after now.
C28_RangeOrdered ==
    (pq.pc = "done" /\ pq.result.kind = "range") =>
        /\ pq.result.start <= pq.result.end
        /\ pq.result.start <= now

\* a quarter in progress: the pair is returned and its end lies after now
C28_Witness ==
    /\ pq.pc = "done"
    /\ pq.result.kind = "range"
    /\ FirstQuarterIn(LowerQuery(pq.query)) # 0
    /\ pq.result.start <= now
    /\ now < pq.result.end

====
